---- MODULE Spec2Model ----
(***************************************************************************)
(* Compaction orchestrator of the desktop UI (ContextManager.tsx).         *)
(*                                                                         *)
(* The provider holds two React state cells, isCompacting and              *)
(* compactionError.  handleAutoCompaction and handleManualCompaction both  *)
(* run performCompaction, an async function with one suspension point (the *)
(* await on manageContextFromBackend) and one timer (the delayed append of *)
(* the continuation message).  The JavaScript event loop is modelled by    *)
(* `running` (the attempt whose synchronous code holds the call stack),    *)
(* `microtasks` (continuations of settled awaits, FIFO) and `timers` (the  *)
(* pending setTimeout callbacks, FIFO since they share one delay).         *)
(***************************************************************************)
EXTENDS Integers, Sequences, FiniteSets, TLC

\* ---------------------------------------------------------------- bounds
MaxAttempts == 2    \* compaction attempts invoked in one behaviour
MaxMessages == 1    \* length of the caller's message list at mount
MaxResponse == 4    \* length of a summarization response
MaxBlocks == 3      \* content blocks of a message given to hasCompactionMarker

\* ------------------------------------------------------ program constants
ContinuationDelay == 100    \* setTimeout delay of the continuation append

Attempts == 1..MaxAttempts

Flags == {<<TRUE, TRUE>>, <<TRUE, FALSE>>, <<FALSE, TRUE>>, <<FALSE, FALSE>>}

\* ------------------------------------------------------------- data model
\* string | null of the compactionError cell
Null == [isNull |-> TRUE, str |-> ""]
Str(s) == [isNull |-> FALSE, str |-> s]

\* Message of types/message: id, role, content blocks (by type), flags.
Msg(id, role, content, display, sendToLLM) ==
    [id |-> id, role |-> role, content |-> content,
     display |-> display, sendToLLM |-> sendToLLM]

\* Messages the caller may hold at mount: text messages with every flag
\* combination, and an earlier compaction marker.
MessagePool(i) ==
    {Msg(<<"msg", i>>, "user", <<"text">>, f[1], f[2]) : f \in Flags}
      \cup {Msg(<<"msg", i>>, "assistant", <<"summarizationRequested">>, TRUE, FALSE)}

InitialLists ==
    UNION {{s \in [1..n -> UNION {MessagePool(i) : i \in 1..MaxMessages}] :
              \A i \in 1..n : s[i] \in MessagePool(i)} : n \in 0..MaxMessages}

\* The callbacks the calling component passes: it passes the same ones at
\* every call (append and clearAlerts are optional for the manual entry
\* point, setAncestorMessages for both).
CallerConfigs ==
    [hasAppend : BOOLEAN, hasClearAlerts : BOOLEAN, hasSetAncestorMessages : BOOLEAN]

\* Values a rejected summarization call may carry: an Error with a message,
\* an Error with an empty message, a thrown non-Error value.
Rejections ==
    {[isError |-> TRUE, message |-> "Failed to fetch"],
     [isError |-> TRUE, message |-> ""],
     [isError |-> FALSE, message |-> "timeout"]}

\* Raw API message at position i of a response (0-based, as in the map):
\* position 0 carries the summarizationRequested block, the others text.
\* f are the flags the raw message carries itself; bad marks the message the
\* conversion cannot parse.
ApiMessage(i, f, bad) ==
    [id |-> <<"api", i>>,
     role |-> IF i = 2 THEN "user" ELSE "assistant",
     content |-> IF i = 0 THEN <<"summarizationRequested">> ELSE <<"text">>,
     display |-> f[1], sendToLLM |-> f[2], malformed |-> bad]

\* Response of n messages, all carrying the flags f, message number bad
\* (1-based, 0 for none) malformed.
Response(n, f, bad) == [k \in 1..n |-> ApiMessage(k - 1, f, k = bad)]

\* flags a raw message may carry: each flag takes both values
RawFlags == {<<TRUE, TRUE>>, <<FALSE, FALSE>>}

Responses ==
    {Response(n, f, 0) : n \in 0..MaxResponse, f \in RawFlags}
      \cup {Response(n, <<TRUE, TRUE>>, n) : n \in 1..MaxResponse}

\* Date.now() readings
Times == {1000}

\* ------------------------------------------------------------------ state
VARIABLES
    isCompacting,       \* useState<boolean>(false)
    compactionError,    \* useState<string | null>(null)
    messageList,        \* the caller's message list (setMessages / append)
    ancestorStore,      \* the caller's ancestor store (setAncestorMessages)
    alertsShown,        \* the caller's alert box (clearAlerts)
    caller,             \* the callbacks the caller passes
    submitted,          \* messages submitted to the live conversation (append)
    attempt,            \* per invocation: arguments, position, results, calls
    running,            \* attempt holding the call stack, 0 when the loop is idle
    microtasks,         \* continuations of settled awaits
    timers,             \* pending setTimeout callbacks
    probe               \* the last hasCompactionMarker call and what it returned

vars == <<isCompacting, compactionError, messageList, ancestorStore, alertsShown,
          caller, submitted, attempt, running, microtasks, timers, probe>>

NoProbe == [called |-> FALSE, index |-> 0, result |-> FALSE]

NoOutcome == [kind |-> "none", response |-> <<>>, error |-> [isError |-> FALSE, message |-> ""]]

IdleAttempt ==
    [pc |-> "idle", manual |-> FALSE,
     hasAppend |-> FALSE, hasClearAlerts |-> FALSE, hasSetAncestorMessages |-> FALSE,
     messages |-> <<>>, outcome |-> NoOutcome,
     err |-> [isError |-> FALSE, message |-> ""],
     convertedMessages |-> <<>>, calls |-> <<>>, promise |-> "none",
     writes |-> <<>>,        \* the attempt's calls to the two state setters
     appendsSeen |-> 0,      \* submissions made before the invocation
     settledAt |-> 0,        \* rank of the collaborator's settlement, 0 before
     replacedAt |-> 0]       \* rank of the setMessages call, 0 before

Init ==
    /\ isCompacting = FALSE
    /\ compactionError = Null
    /\ messageList \in InitialLists
    /\ ancestorStore = <<>>
    /\ alertsShown = TRUE
    /\ caller \in CallerConfigs
    /\ submitted = <<>>
    /\ attempt = [a \in Attempts |-> IdleAttempt]
    /\ running = 0
    /\ microtasks = <<>>
    /\ timers = <<>>
    /\ probe = NoProbe

\* ------------------------------------------------------- pure computations
\* The conversion collaborator: the raw message with the two flags applied.
convertApiMessageToFrontendMessage(apiMessage, display, sendToLLM) ==
    Msg(apiMessage.id, apiMessage.role, apiMessage.content, display, sendToLLM)

\* The conversion throws on a message it cannot parse.
ConversionThrows(response) == \E k \in 1..Len(response) : response[k].malformed

ConversionError == [isError |-> TRUE, message |-> "Invalid message content"]

\* ConvertAt with the summary given the flags of the marker
ConvertAtSummaryAsMarker(apiMessage, index) ==
    IF index = 0 THEN convertApiMessageToFrontendMessage(apiMessage, TRUE, FALSE)
    ELSE IF index = 1 THEN convertApiMessageToFrontendMessage(apiMessage, TRUE, FALSE)
    ELSE convertApiMessageToFrontendMessage(apiMessage, FALSE, TRUE)

\* summaryResponse.messages.map((apiMessage, index) => ...), index = k - 1
ConvertAt(apiMessage, index) ==
    IF index = 0 THEN convertApiMessageToFrontendMessage(apiMessage, TRUE, FALSE)
    ELSE IF index = 1 THEN convertApiMessageToFrontendMessage(apiMessage, FALSE, TRUE)
    ELSE convertApiMessageToFrontendMessage(apiMessage, FALSE, TRUE)

\* ConvertedMessages keeping the three expected messages only
ConvertedMessagesFirstThree(response) ==
    [k \in 1..(IF Len(response) < 3 THEN Len(response) ELSE 3) |->
        ConvertAt(response[k], k - 1)]

ConvertedMessages(response) ==
    [k \in 1..Len(response) |-> ConvertAt(response[k], k - 1)]

\* AncestorOf without the display override
AncestorOfKeepsDisplay(msg) == [msg EXCEPT !.sendToLLM = FALSE]

\* messages.map((msg) => ({...msg, display: true, sendToLLM: false}))
AncestorOf(msg) == [msg EXCEPT !.display = TRUE, !.sendToLLM = FALSE]

AncestorMessages(messages) == [k \in 1..Len(messages) |-> AncestorOf(messages[k])]

\* convertedMessages[2]: present iff the array has an element at index 2
HasContinuation(converted) == Len(converted) >= 3

\* ContinuationMessage reading the summary's position
ContinuationMessageOffByOne(converted) == converted[2]

ContinuationMessage(converted) == converted[3]

\* err instanceof Error ? err.message : 'Unknown error during compaction'
ErrorString(err) ==
    IF err.isError THEN err.message ELSE "Unknown error during compaction"

\* ErrorMarker that is sent to the model
ErrorMarkerSent(now) ==
    [id |-> <<"compaction-error", now>>, role |-> "assistant",
     content |-> <<"summarizationRequested">>,
     display |-> TRUE, sendToLLM |-> TRUE]

\* the errorMarker literal; created is Math.floor(Date.now() / 1000)
ErrorMarker(now) ==
    [id |-> <<"compaction-error", now>>, role |-> "assistant",
     content |-> <<"summarizationRequested">>,
     display |-> TRUE, sendToLLM |-> FALSE]

\* FailureMessages without the original transcript
FailureMessagesDropsHistory(messages, now) == <<ErrorMarker(now)>>

\* [...messages, errorMarker]
FailureMessages(messages, now) == Append(messages, ErrorMarker(now))

\* EffectiveAppend that always submits
EffectiveAppendAlways(hasAppend) == "caller"

\* append || (() => {})
EffectiveAppend(hasAppend) == IF hasAppend THEN "caller" ELSE "noop"

\* hasCompactionMarker looking at the first block only
hasCompactionMarkerFirstOnly(message) ==
    /\ Len(message.content) >= 1
    /\ message.content[1] = "summarizationRequested"

\* message.content.some((content) => content.type === 'summarizationRequested')
hasCompactionMarker(message) ==
    \E k \in 1..Len(message.content) : message.content[k] = "summarizationRequested"

\* ---------------------------------------------------------------- helpers
Call(fn, arg) == [fn |-> fn, arg |-> arg]

\* the calls of attempt a to the named function
CallsTo(a, fn) == SelectSeq(attempt[a].calls, LAMBDA c : c.fn = fn)

\* a call of setIsCompacting or setCompactionError
Write(cell, bool, err) == [cell |-> cell, bool |-> bool, err |-> err]

\* the rank of the next settlement, and of the next setMessages call
NextSettled == 1 + Cardinality({b \in Attempts : attempt[b].settledAt > 0})

NextReplaced == 1 + Cardinality({b \in Attempts : attempt[b].replacedAt > 0})

\* the next unused attempt slot
NextAttempt(a) ==
    /\ attempt[a].pc = "idle"
    /\ \A b \in Attempts : b < a => attempt[b].pc # "idle"

LoopIdle == running = 0

\* ---------------------------------------------------------------- actions
\* handleAutoCompaction(messages, setMessages, append, setAncestorMessages?):
\* the caller passes its current list; control enters performCompaction.
handleAutoCompaction(a) ==
    /\ LoopIdle
    /\ NextAttempt(a)
    /\ caller.hasAppend
    /\ attempt' = [attempt EXCEPT ![a] =
           [@ EXCEPT !.pc = "reset", !.manual = FALSE, !.hasAppend = TRUE,
                     !.hasClearAlerts = FALSE,
                     !.hasSetAncestorMessages = caller.hasSetAncestorMessages,
                     !.messages = messageList, !.promise = "pending",
                     !.appendsSeen = Len(submitted)]]
    /\ running' = a
    /\ UNCHANGED <<probe, isCompacting, compactionError, messageList, ancestorStore,
                   alertsShown, caller, submitted, microtasks, timers>>

\* handleManualCompaction that does not pass setAncestorMessages on
handleManualCompactionDropsAncestors(a) ==
    /\ LoopIdle
    /\ NextAttempt(a)
    /\ attempt' = [attempt EXCEPT ![a] =
           [@ EXCEPT !.pc = "clearAlerts", !.manual = TRUE, !.hasAppend = caller.hasAppend,
                     !.hasClearAlerts = caller.hasClearAlerts,
                     !.hasSetAncestorMessages = FALSE,
                     !.messages = messageList, !.promise = "pending",
                     !.appendsSeen = Len(submitted)]]
    /\ running' = a
    /\ UNCHANGED <<probe, isCompacting, compactionError, messageList, ancestorStore,
                   alertsShown, caller, submitted, microtasks, timers>>

\* handleManualCompaction(messages, setMessages, append?, clearAlerts?,
\* setAncestorMessages?)
handleManualCompaction(a) ==
    /\ LoopIdle
    /\ NextAttempt(a)
    /\ attempt' = [attempt EXCEPT ![a] =
           [@ EXCEPT !.pc = "clearAlerts", !.manual = TRUE, !.hasAppend = caller.hasAppend,
                     !.hasClearAlerts = caller.hasClearAlerts,
                     !.hasSetAncestorMessages = caller.hasSetAncestorMessages,
                     !.messages = messageList, !.promise = "pending",
                     !.appendsSeen = Len(submitted)]]
    /\ running' = a
    /\ UNCHANGED <<probe, isCompacting, compactionError, messageList, ancestorStore,
                   alertsShown, caller, submitted, microtasks, timers>>

\* ClearAlerts that never calls the callback
ClearAlertsSkipped(a) ==
    /\ running = a
    /\ attempt[a].pc = "clearAlerts"
    /\ attempt' = [attempt EXCEPT ![a].pc = "reset"]
    /\ UNCHANGED <<probe, caller, isCompacting, compactionError, messageList, ancestorStore,
                   alertsShown, submitted, running, microtasks, timers>>

\* if (clearAlerts) { clearAlerts(); }
ClearAlerts(a) ==
    /\ running = a
    /\ attempt[a].pc = "clearAlerts"
    /\ IF attempt[a].hasClearAlerts
       THEN /\ alertsShown' = FALSE
            /\ attempt' = [attempt EXCEPT ![a].pc = "reset",
                               ![a].calls = Append(@, Call("clearAlerts", <<>>))]
       ELSE /\ alertsShown' = alertsShown
            /\ attempt' = [attempt EXCEPT ![a].pc = "reset"]
    /\ UNCHANGED <<probe, caller, isCompacting, compactionError, messageList, ancestorStore,
                   submitted, running, microtasks, timers>>

\* ResetState behind a guard: an invocation made while isCompacting is true
\* returns at once
ResetStateWhenIdleOnly(a) ==
    /\ running = a
    /\ attempt[a].pc = "reset"
    /\ IF isCompacting
       THEN /\ attempt' = [attempt EXCEPT ![a].pc = "done", ![a].promise = "fulfilled"]
            /\ running' = 0
            /\ UNCHANGED <<isCompacting, compactionError>>
       ELSE /\ isCompacting' = TRUE
            /\ compactionError' = Null
            /\ attempt' = [attempt EXCEPT ![a].pc = "request"]
            /\ running' = running
    /\ UNCHANGED <<probe, messageList, ancestorStore, alertsShown, caller, submitted,
                   microtasks, timers>>

\* ResetState that leaves the previous error in place
ResetStateKeepsError(a) ==
    /\ running = a
    /\ attempt[a].pc = "reset"
    /\ isCompacting' = TRUE
    /\ attempt' = [attempt EXCEPT ![a].pc = "request"]
    /\ UNCHANGED <<probe, caller, compactionError, messageList, ancestorStore, alertsShown,
                   submitted, running, microtasks, timers>>

\* setIsCompacting(true); setCompactionError(null);
ResetState(a) ==
    /\ running = a
    /\ attempt[a].pc = "reset"
    /\ isCompacting' = TRUE
    /\ compactionError' = Null
    /\ attempt' = [attempt EXCEPT ![a].pc = "request",
                       ![a].writes = @ \o <<Write("isCompacting", TRUE, Null),
                                            Write("compactionError", FALSE, Null)>>]
    /\ UNCHANGED <<probe, messageList, ancestorStore, alertsShown, caller, submitted,
                   running, microtasks, timers>>

\* await manageContextFromBackend({messages, manageAction: 'summarize'}):
\* the call is made and the attempt suspends.
RequestSummary(a) ==
    /\ running = a
    /\ attempt[a].pc = "request"
    /\ attempt' = [attempt EXCEPT ![a].pc = "await",
                       ![a].calls = Append(@, Call("manageContextFromBackend",
                                                    attempt[a].messages))]
    /\ running' = 0
    /\ UNCHANGED <<probe, isCompacting, compactionError, messageList, ancestorStore,
                   alertsShown, caller, submitted, microtasks, timers>>

\* The summarization collaborator resolves with a response.
BackendResolves(a, response) ==
    /\ LoopIdle
    /\ attempt[a].pc = "await"
    /\ attempt' = [attempt EXCEPT ![a].pc = "settled",
                       ![a].settledAt = NextSettled,
                       ![a].outcome = [kind |-> "resolved", response |-> response,
                                       error |-> NoOutcome.error]]
    /\ microtasks' = Append(microtasks, a)
    /\ UNCHANGED <<probe, isCompacting, compactionError, messageList, ancestorStore,
                   alertsShown, caller, submitted, running, timers>>

\* The summarization collaborator rejects.
BackendRejects(a, error) ==
    /\ LoopIdle
    /\ attempt[a].pc = "await"
    /\ attempt' = [attempt EXCEPT ![a].pc = "settled",
                       ![a].settledAt = NextSettled,
                       ![a].outcome = [kind |-> "rejected", response |-> <<>>,
                                       error |-> error]]
    /\ microtasks' = Append(microtasks, a)
    /\ UNCHANGED <<probe, isCompacting, compactionError, messageList, ancestorStore,
                   alertsShown, caller, submitted, running, timers>>

\* The await continues: into the try body on a response, into the catch
\* block with the rejection value otherwise.
Resume(a) ==
    /\ LoopIdle
    /\ microtasks # <<>>
    /\ Head(microtasks) = a
    /\ attempt[a].pc = "settled"
    /\ microtasks' = Tail(microtasks)
    /\ running' = a
    /\ attempt' = IF attempt[a].outcome.kind = "resolved"
                  THEN [attempt EXCEPT ![a].pc = "convert"]
                  ELSE [attempt EXCEPT ![a].pc = "catch",
                                       ![a].err = attempt[a].outcome.error]
    /\ UNCHANGED <<probe, isCompacting, compactionError, messageList, ancestorStore,
                   alertsShown, caller, submitted, timers>>

\* ConvertResponse with the conversion placed after the ancestor snapshot
ConvertResponseAfterAncestors(a) ==
    /\ running = a
    /\ attempt[a].pc = "convert"
    /\ IF ConversionThrows(attempt[a].outcome.response)
       THEN IF attempt[a].hasSetAncestorMessages
            THEN /\ ancestorStore' = AncestorMessages(attempt[a].messages)
                 /\ attempt' = [attempt EXCEPT ![a].pc = "catch",
                                    ![a].err = ConversionError,
                                    ![a].calls = Append(@, Call("setAncestorMessages",
                                                AncestorMessages(attempt[a].messages)))]
            ELSE /\ ancestorStore' = ancestorStore
                 /\ attempt' = [attempt EXCEPT ![a].pc = "catch",
                                    ![a].err = ConversionError]
       ELSE /\ ancestorStore' = ancestorStore
            /\ attempt' = [attempt EXCEPT ![a].pc = "ancestors",
                               ![a].convertedMessages =
                                   ConvertedMessages(attempt[a].outcome.response)]
    /\ UNCHANGED <<probe, isCompacting, compactionError, messageList,
                   alertsShown, caller, submitted, running, microtasks, timers>>

\* const convertedMessages = summaryResponse.messages.map(...): a throw of
\* the conversion leaves the try body before any callback has run.
ConvertResponse(a) ==
    /\ running = a
    /\ attempt[a].pc = "convert"
    /\ attempt' = IF ConversionThrows(attempt[a].outcome.response)
                  THEN [attempt EXCEPT ![a].pc = "catch", ![a].err = ConversionError]
                  ELSE [attempt EXCEPT ![a].pc = "ancestors",
                            ![a].convertedMessages =
                                ConvertedMessages(attempt[a].outcome.response)]
    /\ UNCHANGED <<probe, isCompacting, compactionError, messageList, ancestorStore,
                   alertsShown, caller, submitted, running, microtasks, timers>>

\* if (setAncestorMessages) { setAncestorMessages(ancestorMessages); }
StoreAncestors(a) ==
    /\ running = a
    /\ attempt[a].pc = "ancestors"
    /\ IF attempt[a].hasSetAncestorMessages
       THEN /\ ancestorStore' = AncestorMessages(attempt[a].messages)
            /\ attempt' = [attempt EXCEPT ![a].pc = "replace",
                               ![a].calls = Append(@, Call("setAncestorMessages",
                                                AncestorMessages(attempt[a].messages)))]
       ELSE /\ ancestorStore' = ancestorStore
            /\ attempt' = [attempt EXCEPT ![a].pc = "replace"]
    /\ UNCHANGED <<probe, isCompacting, compactionError, messageList, alertsShown,
                   caller, submitted, running, microtasks, timers>>

\* setMessages(convertedMessages);
ReplaceMessages(a) ==
    /\ running = a
    /\ attempt[a].pc = "replace"
    /\ messageList' = attempt[a].convertedMessages
    /\ attempt' = [attempt EXCEPT ![a].pc = "schedule",
                       ![a].replacedAt = NextReplaced,
                       ![a].calls = Append(@, Call("setMessages",
                                                    attempt[a].convertedMessages))]
    /\ UNCHANGED <<probe, isCompacting, compactionError, ancestorStore, alertsShown,
                   caller, submitted, running, microtasks, timers>>

\* if (continuationMessage) { setTimeout(() => append(continuationMessage), 100); }
ScheduleContinuation(a) ==
    /\ running = a
    /\ attempt[a].pc = "schedule"
    /\ timers' = IF HasContinuation(attempt[a].convertedMessages)
                 THEN Append(timers, [attempt |-> a, delay |-> ContinuationDelay,
                          message |-> ContinuationMessage(attempt[a].convertedMessages)])
                 ELSE timers
    /\ attempt' = [attempt EXCEPT ![a].pc = "finish"]
    /\ UNCHANGED <<probe, isCompacting, compactionError, messageList, ancestorStore,
                   alertsShown, caller, submitted, running, microtasks>>

\* FinishSuccess that also clears the error
FinishSuccessClearsError(a) ==
    /\ running = a
    /\ attempt[a].pc = "finish"
    /\ isCompacting' = FALSE
    /\ compactionError' = Null
    /\ attempt' = [attempt EXCEPT ![a].pc = "done", ![a].promise = "fulfilled"]
    /\ running' = 0
    /\ UNCHANGED <<probe, messageList, ancestorStore, alertsShown,
                   caller, submitted, microtasks, timers>>

\* FinishSuccess that leaves isCompacting set
FinishSuccessStaysCompacting(a) ==
    /\ running = a
    /\ attempt[a].pc = "finish"
    /\ attempt' = [attempt EXCEPT ![a].pc = "done", ![a].promise = "fulfilled"]
    /\ running' = 0
    /\ UNCHANGED <<probe, caller, isCompacting, compactionError, messageList, ancestorStore,
                   alertsShown, submitted, microtasks, timers>>

\* setIsCompacting(false); the try body ends and the promise resolves.
FinishSuccess(a) ==
    /\ running = a
    /\ attempt[a].pc = "finish"
    /\ isCompacting' = FALSE
    /\ attempt' = [attempt EXCEPT ![a].pc = "done", ![a].promise = "fulfilled",
                       ![a].writes = Append(@, Write("isCompacting", FALSE, Null))]
    /\ running' = 0
    /\ UNCHANGED <<probe, compactionError, messageList, ancestorStore, alertsShown,
                   caller, submitted, microtasks, timers>>

\* catch (err): setCompactionError(...)
CatchError(a) ==
    /\ running = a
    /\ attempt[a].pc = "catch"
    /\ compactionError' = Str(ErrorString(attempt[a].err))
    /\ attempt' = [attempt EXCEPT ![a].pc = "marker",
                       ![a].writes = Append(@, Write("compactionError", FALSE,
                                                     Str(ErrorString(attempt[a].err))))]
    /\ UNCHANGED <<probe, isCompacting, messageList, ancestorStore, alertsShown,
                   caller, submitted, running, microtasks, timers>>

\* setMessages([...messages, errorMarker]);
InstallErrorMarker(a, now) ==
    /\ running = a
    /\ attempt[a].pc = "marker"
    /\ messageList' = FailureMessages(attempt[a].messages, now)
    /\ attempt' = [attempt EXCEPT ![a].pc = "failed",
                       ![a].replacedAt = NextReplaced,
                       ![a].calls = Append(@, Call("setMessages",
                                        FailureMessages(attempt[a].messages, now)))]
    /\ UNCHANGED <<probe, isCompacting, compactionError, ancestorStore, alertsShown,
                   caller, submitted, running, microtasks, timers>>

\* FinishFailure that leaves isCompacting set
FinishFailureStaysCompacting(a) ==
    /\ running = a
    /\ attempt[a].pc = "failed"
    /\ attempt' = [attempt EXCEPT ![a].pc = "done", ![a].promise = "fulfilled"]
    /\ running' = 0
    /\ UNCHANGED <<probe, isCompacting, compactionError, messageList, ancestorStore,
                   alertsShown, caller, submitted, microtasks, timers>>

\* FinishFailure that re-throws the caught error
FinishFailureRethrows(a) ==
    /\ running = a
    /\ attempt[a].pc = "failed"
    /\ isCompacting' = FALSE
    /\ attempt' = [attempt EXCEPT ![a].pc = "done", ![a].promise = "rejected"]
    /\ running' = 0
    /\ UNCHANGED <<probe, caller, compactionError, messageList, ancestorStore, alertsShown,
                   submitted, microtasks, timers>>

\* setIsCompacting(false); the catch block ends and the promise resolves.
FinishFailure(a) ==
    /\ running = a
    /\ attempt[a].pc = "failed"
    /\ isCompacting' = FALSE
    /\ attempt' = [attempt EXCEPT ![a].pc = "done", ![a].promise = "fulfilled",
                       ![a].writes = Append(@, Write("isCompacting", FALSE, Null))]
    /\ running' = 0
    /\ UNCHANGED <<probe, compactionError, messageList, ancestorStore, alertsShown,
                   caller, submitted, microtasks, timers>>

\* The timer callback () => { append(continuationMessage); } runs on a later
\* turn, once the microtasks have drained.
TimerFires ==
    /\ LoopIdle
    /\ microtasks = <<>>
    /\ timers # <<>>
    /\ LET t == Head(timers)
           a == t.attempt
       IN  IF EffectiveAppend(attempt[a].hasAppend) = "caller"
           THEN /\ messageList' = Append(messageList, t.message)
                /\ submitted' = Append(submitted, t.message)
                /\ attempt' = [attempt EXCEPT ![a].calls =
                                   Append(@, Call("append", <<t.message>>))]
           ELSE UNCHANGED <<probe, caller, messageList, submitted, attempt>>
    /\ timers' = Tail(timers)
    /\ UNCHANGED <<probe, caller, isCompacting, compactionError, ancestorStore, alertsShown,
                   running, microtasks>>

Next ==
    \/ \E a \in Attempts : handleAutoCompaction(a)
    \/ \E a \in Attempts : handleManualCompaction(a)
    \/ \E a \in Attempts : ClearAlerts(a)
    \/ \E a \in Attempts : ResetState(a)
    \/ \E a \in Attempts : RequestSummary(a)
    \/ \E a \in Attempts, response \in Responses : BackendResolves(a, response)
    \/ \E a \in Attempts, error \in Rejections : BackendRejects(a, error)
    \/ \E a \in Attempts : Resume(a)
    \/ \E a \in Attempts : ConvertResponse(a)
    \/ \E a \in Attempts : StoreAncestors(a)
    \/ \E a \in Attempts : ReplaceMessages(a)
    \/ \E a \in Attempts : ScheduleContinuation(a)
    \/ \E a \in Attempts : FinishSuccess(a)
    \/ \E a \in Attempts : CatchError(a)
    \/ \E a \in Attempts, now \in Times : InstallErrorMarker(a, now)
    \/ \E a \in Attempts : FinishFailure(a)
    \/ TimerFires

Spec == Init /\ [][Next]_vars

\* ------------------------------------------------------ run to completion
\* The event loop runs every synchronous step, every queued continuation and
\* every due timer; every collaborator call settles (the assumption of the
\* run-to-completion property).  Invocations are up to the caller.
Fairness ==
    /\ \A a \in Attempts :
           /\ WF_vars(ClearAlerts(a))
           /\ WF_vars(ResetState(a))
           /\ WF_vars(RequestSummary(a))
           /\ WF_vars((\E response \in Responses : BackendResolves(a, response))
                         \/ (\E error \in Rejections : BackendRejects(a, error)))
           /\ WF_vars(Resume(a))
           /\ WF_vars(ConvertResponse(a))
           /\ WF_vars(StoreAncestors(a))
           /\ WF_vars(ReplaceMessages(a))
           /\ WF_vars(ScheduleContinuation(a))
           /\ WF_vars(FinishSuccess(a))
           /\ WF_vars(CatchError(a))
           /\ WF_vars(\E now \in Times : InstallErrorMarker(a, now))
           /\ WF_vars(FinishFailure(a))
    /\ WF_vars(TimerFires)

\* a caller that supplies every callback, starting from any list
InitLive ==
    /\ Init
    /\ caller = [hasAppend |-> TRUE, hasClearAlerts |-> TRUE,
                 hasSetAncestorMessages |-> TRUE]

LiveSpec == InitLive /\ [][Next]_vars /\ Fairness

\* ------------------------------------------- hasCompactionMarker on its own
\* content block types of a message
BlockKinds == {"text", "toolRequest", "summarizationRequested"}

\* content sequences of up to MaxBlocks blocks, the empty one included
Contents == UNION {[1..n -> BlockKinds] : n \in 0..MaxBlocks}

\* the caller holds one message of any content and flags
InitMarker ==
    /\ isCompacting = FALSE
    /\ compactionError = Null
    /\ messageList \in {<<Msg(<<"msg", 1>>, "assistant", c, f[1], f[2])>> :
                            c \in Contents, f \in Flags}
    /\ ancestorStore = <<>>
    /\ alertsShown = TRUE
    /\ caller \in CallerConfigs
    /\ submitted = <<>>
    /\ attempt = [a \in Attempts |-> IdleAttempt]
    /\ running = 0
    /\ microtasks = <<>>
    /\ timers = <<>>
    /\ probe = NoProbe

\* the caller asks hasCompactionMarker about message k of its list
CallHasCompactionMarker(k) ==
    /\ LoopIdle
    /\ k \in 1..Len(messageList)
    /\ ~probe.called
    /\ probe' = [called |-> TRUE, index |-> k,
                 result |-> hasCompactionMarker(messageList[k])]
    /\ UNCHANGED <<isCompacting, compactionError, messageList, ancestorStore,
                   alertsShown, caller, submitted, attempt, running, microtasks,
                   timers>>

NextMarker == \E k \in 1..MaxMessages : CallHasCompactionMarker(k)

SpecMarker == InitMarker /\ [][NextMarker]_vars

\* ------------------------------------------------------------- vocabulary
Done(a) == attempt[a].pc = "done"

Rejected(a) == attempt[a].outcome.kind = "rejected"

\* the collaborator resolved with n messages the conversion accepts
Succeeded(a) ==
    /\ attempt[a].outcome.kind = "resolved"
    /\ ~ConversionThrows(attempt[a].outcome.response)

ResponseLen(a) == Len(attempt[a].outcome.response)

\* an Error Marker Message: assistant, one summarizationRequested block,
\* shown and not sent, identifier derived from the time
IsErrorMarker(m) ==
    /\ m.role = "assistant"
    /\ m.content = <<"summarizationRequested">>
    /\ m.display = TRUE
    /\ m.sendToLLM = FALSE
    /\ m.id[1] = "compaction-error"

\* the calls of attempt a to the caller's three message callbacks
MessageCallbacks(a) ==
    SelectSeq(attempt[a].calls,
              LAMBDA c : c.fn \in {"setAncestorMessages", "setMessages", "append"})

TimerPending(a) == \E k \in 1..Len(timers) : timers[k].attempt = a

\* a is the only attempt invoked so far
SoleAttempt(a) == \A b \in Attempts : b # a => attempt[b].pc = "idle"

\* m is the conversion of the raw message r with the flags (d, s): same
\* message, the flags overridden
ConvertedFrom(m, r, d, s) ==
    /\ m.id = r.id
    /\ m.role = r.role
    /\ m.content = r.content
    /\ m.display = d
    /\ m.sendToLLM = s

\* a step of attempt a's try body after a response the conversion accepts
SuccessStep(a) == running = a /\ Succeeded(a)

\* ------------------------------------------------------------------ claims
\* C1: when the summarization collaborator rejects, the attempt calls
\* setMessages exactly once, with the original input sequence (same entries,
\* same order, flags untouched) followed by exactly one Error Marker Message,
\* and that sequence is what the caller's list then holds.
C1_FailurePreservesHistory ==
    \A a \in Attempts :
        (Rejected(a) /\ attempt[a].pc \in {"failed", "done"}) =>
            LET sm == CallsTo(a, "setMessages")
                n == Len(attempt[a].messages)
            IN  /\ Len(sm) = 1
                /\ Len(sm[1].arg) = n + 1
                /\ \A k \in 1..n : sm[1].arg[k] = attempt[a].messages[k]
                /\ IsErrorMarker(sm[1].arg[n + 1])
                /\ attempt[a].pc = "failed" => messageList = sm[1].arg

C1_Witness ==
    \E a \in Attempts :
        /\ Done(a) /\ Rejected(a)
        /\ Len(attempt[a].messages) >= 1
        /\ attempt[a].messages[1].sendToLLM

\* C2: after an attempt in which the collaborator rejected, with any
\* rejection value, the failure exit leaves isCompacting false and
\* compactionError a non-empty string.
C2_FailureExitState ==
    [][\A a \in Attempts :
          (Rejected(a) /\ attempt[a].pc = "failed" /\ attempt'[a].pc = "done") =>
              /\ isCompacting' = FALSE
              /\ ~compactionError'.isNull
              /\ compactionError'.str # ""]_vars

\* C3: after a success with a three-message response, setMessages received
\* exactly three entries in response order, entry 0 flagged (true, false) and
\* entries 1 and 2 flagged (false, true), whatever flags the raw response or
\* the earlier messages carried.
C3_SuccessFlags ==
    \A a \in Attempts :
        (Succeeded(a) /\ ResponseLen(a) = 3
           /\ attempt[a].pc \in {"schedule", "finish", "done"}) =>
            LET sm == CallsTo(a, "setMessages")
                r == attempt[a].outcome.response
            IN  /\ Len(sm) = 1
                /\ Len(sm[1].arg) = 3
                /\ ConvertedFrom(sm[1].arg[1], r[1], TRUE, FALSE)
                /\ ConvertedFrom(sm[1].arg[2], r[2], FALSE, TRUE)
                /\ ConvertedFrom(sm[1].arg[3], r[3], FALSE, TRUE)
                /\ attempt[a].pc = "schedule" => messageList = sm[1].arg

C3_Witness ==
    \E a \in Attempts :
        /\ Done(a) /\ Succeeded(a) /\ ResponseLen(a) = 3
        /\ attempt[a].outcome.response[2].display
        /\ Len(attempt[a].messages) >= 1

\* C4: when setAncestorMessages is supplied and the attempt succeeds, it is
\* called with a snapshot of the N input messages in which every entry has
\* (display, sendToLLM) = (true, false).
C4_AncestorSnapshot ==
    \A a \in Attempts :
        (Succeeded(a) /\ attempt[a].hasSetAncestorMessages
           /\ attempt[a].pc \in {"replace", "schedule", "finish", "done"}) =>
            LET sa == CallsTo(a, "setAncestorMessages")
                n == Len(attempt[a].messages)
            IN  /\ Len(sa) = 1
                /\ Len(sa[1].arg) = n
                /\ \A k \in 1..n :
                       /\ sa[1].arg[k].display = TRUE
                       /\ sa[1].arg[k].sendToLLM = FALSE
                       /\ sa[1].arg[k].id = attempt[a].messages[k].id
                       /\ sa[1].arg[k].content = attempt[a].messages[k].content
                /\ attempt[a].pc = "replace" => ancestorStore = sa[1].arg

C4_Witness ==
    \E a \in Attempts :
        /\ Done(a) /\ Succeeded(a) /\ attempt[a].hasSetAncestorMessages
        /\ Len(attempt[a].messages) >= 1
        /\ ~attempt[a].messages[1].display
        /\ attempt[a].messages[1].sendToLLM

\* C5: whatever the orchestrator state at the invocation, when the attempt
\* is about to call the summarization collaborator isCompacting is true,
\* compactionError is absent, and no caller callback other than clearAlerts
\* has run.
C5_ResetBeforeRequest ==
    \A a \in Attempts :
        attempt[a].pc = "request" =>
            /\ isCompacting = TRUE
            /\ compactionError = Null
            /\ \A k \in 1..Len(attempt[a].calls) : attempt[a].calls[k].fn = "clearAlerts"

\* a second attempt about to call the collaborator after a failed first one
C5_Witness ==
    \E a, b \in Attempts :
        /\ attempt[a].pc = "request"
        /\ Done(b) /\ Rejected(b) /\ attempt[b].outcome.error.message = "Failed to fetch"

\* C6: for a success with a three-message response and all callbacks
\* supplied, the attempt calls setAncestorMessages once (one entry per input
\* message), then setMessages once with the three converted messages, and
\* append only on a later turn, at most once and with the message installed
\* at position 2: once the timer has fired, exactly once.
C6_SuccessOrder ==
    \A a \in Attempts :
        (Succeeded(a) /\ ResponseLen(a) = 3
           /\ attempt[a].hasAppend /\ attempt[a].hasSetAncestorMessages
           /\ attempt[a].pc \in {"finish", "done"}) =>
            LET cb == MessageCallbacks(a)
            IN  /\ Len(cb) \in {2, 3}
                /\ cb[1].fn = "setAncestorMessages"
                /\ Len(cb[1].arg) = Len(attempt[a].messages)
                /\ cb[2].fn = "setMessages"
                /\ Len(cb[2].arg) = 3
                /\ \A k \in 1..3 : cb[2].arg[k].id = attempt[a].outcome.response[k].id
                /\ attempt[a].pc = "finish" => Len(cb) = 2
                /\ Len(cb) = 2 <=> TimerPending(a)
                /\ Len(cb) = 3 =>
                       /\ cb[3].fn = "append"
                       /\ cb[3].arg = <<cb[2].arg[3]>>

C6_Witness ==
    \E a \in Attempts :
        /\ Done(a) /\ Succeeded(a) /\ ResponseLen(a) = 3
        /\ attempt[a].hasAppend /\ attempt[a].hasSetAncestorMessages
        /\ Len(CallsTo(a, "append")) = 1

\* C7: when the collaborator succeeds with fewer than three messages, no
\* append is scheduled or called, setMessages receives the converted
\* response and no error marker, no step of the attempt sets
\* compactionError, and the exit sets isCompacting to false.
C7_MissingContinuation ==
    /\ [](\A a \in Attempts :
            (Succeeded(a) /\ ResponseLen(a) < 3 /\ Done(a)) =>
                LET sm == CallsTo(a, "setMessages")
                    r == attempt[a].outcome.response
                IN  /\ Len(CallsTo(a, "append")) = 0
                    /\ ~TimerPending(a)
                    /\ Len(sm) = 1
                    /\ Len(sm[1].arg) = Len(r)
                    /\ \A k \in 1..Len(r) :
                           /\ ConvertedFrom(sm[1].arg[k], r[k], k = 1, k # 1)
                           /\ ~IsErrorMarker(sm[1].arg[k])
                    /\ attempt[a].promise = "fulfilled"
                    /\ SoleAttempt(a) => (compactionError = Null /\ ~isCompacting))
    /\ [][\A a \in Attempts :
            (SuccessStep(a) /\ ResponseLen(a) < 3) =>
                /\ compactionError' = compactionError
                /\ attempt'[a].pc = "done" => isCompacting' = FALSE]_vars

C7_Witness ==
    \E a \in Attempts :
        /\ Done(a) /\ Succeeded(a) /\ ResponseLen(a) = 2
        /\ attempt[a].hasAppend
        /\ timers = <<>>

\* C8: when the collaborator rejects, the promise of the entry point is
\* fulfilled, never rejected; the failure shows in compactionError and in the
\* one setMessages call carrying the Error Marker Message, the attempt's only
\* callback after the request.
C8_FailureNotRethrown ==
    \A a \in Attempts :
        /\ attempt[a].promise # "rejected"
        /\ (Rejected(a) /\ attempt[a].pc = "failed") => ~compactionError.isNull
        /\ (Rejected(a) /\ Done(a)) =>
               LET cb == MessageCallbacks(a)
               IN  /\ attempt[a].promise = "fulfilled"
                   /\ Len(cb) = 1
                   /\ cb[1].fn = "setMessages"
                   /\ IsErrorMarker(cb[1].arg[Len(cb[1].arg)])

C8_Witness ==
    \E a \in Attempts :
        /\ Done(a) /\ Rejected(a) /\ ~attempt[a].outcome.error.isError
        /\ attempt[a].promise = "fulfilled"

\* C9: a manual invocation with clearAlerts supplied calls it exactly once,
\* as the first thing the attempt does (before the collaborator is invoked
\* and before setMessages, setAncestorMessages and append); without
\* clearAlerts, or through the automatic entry point, it is never called.
C9_ClearAlertsFirst ==
    \A a \in Attempts :
        attempt[a].pc \notin {"idle", "clearAlerts"} =>
            LET n == Len(CallsTo(a, "clearAlerts"))
            IN  /\ n = (IF attempt[a].manual /\ attempt[a].hasClearAlerts THEN 1 ELSE 0)
                /\ n = 1 => attempt[a].calls[1].fn = "clearAlerts"
                /\ (n = 1 /\ attempt[a].pc \in {"reset", "request"}) => ~alertsShown
                /\ (~attempt[a].manual) => ~attempt[a].hasClearAlerts

C9_Witness ==
    \E a \in Attempts :
        /\ Done(a) /\ attempt[a].manual /\ attempt[a].hasClearAlerts
        /\ Len(CallsTo(a, "clearAlerts")) = 1
        /\ Len(CallsTo(a, "setMessages")) = 1

\* C10: a manual invocation without append whose response has a
\* continuation message completes with its promise fulfilled, installs the
\* three converted messages, sets no error, leaves isCompacting false at its
\* exit, and submits nothing to the live conversation, also once the timer
\* has fired.
C10_ManualWithoutAppend ==
    /\ [](\A a \in Attempts :
            (attempt[a].manual /\ ~attempt[a].hasAppend
               /\ Succeeded(a) /\ ResponseLen(a) = 3 /\ Done(a)) =>
                LET sm == CallsTo(a, "setMessages")
                    r == attempt[a].outcome.response
                IN  /\ attempt[a].promise = "fulfilled"
                    /\ Len(sm) = 1
                    /\ Len(sm[1].arg) = 3
                    /\ \A k \in 1..3 : ConvertedFrom(sm[1].arg[k], r[k], k = 1, k # 1)
                    /\ Len(CallsTo(a, "append")) = 0
                    /\ submitted = <<>>
                    /\ SoleAttempt(a) =>
                           /\ compactionError = Null /\ ~isCompacting
                           /\ messageList = sm[1].arg)
    /\ [][\A a \in Attempts :
            (SuccessStep(a) /\ attempt[a].manual /\ ~attempt[a].hasAppend
               /\ ResponseLen(a) = 3) =>
                /\ compactionError' = compactionError
                /\ attempt'[a].pc = "done" => isCompacting' = FALSE]_vars

C10_Witness ==
    \E a \in Attempts :
        /\ Done(a) /\ attempt[a].manual /\ ~attempt[a].hasAppend
        /\ Succeeded(a) /\ ResponseLen(a) = 3
        /\ ~TimerPending(a)

\* C11: hasCompactionMarker returns true if and only if at least one content
\* block of the message is of type summarizationRequested (false for the
\* empty content), and the call leaves the orchestrator state and the
\* caller's stores as they were.
C11_MarkerPredicate ==
    probe.called =>
        LET content == messageList[probe.index].content
            markers == {j \in 1..Len(content) : content[j] = "summarizationRequested"}
        IN  /\ probe.result = (Cardinality(markers) >= 1)
            /\ Len(content) = 0 => probe.result = FALSE
            /\ isCompacting = FALSE
            /\ compactionError = Null
            /\ ancestorStore = <<>> /\ submitted = <<>> /\ timers = <<>>
            /\ \A a \in Attempts : attempt[a] = IdleAttempt

\* a multi-block message whose marker block is not the first one
C11_Witness ==
    /\ probe.called
    /\ probe.result
    /\ Len(messageList[probe.index].content) >= 2
    /\ messageList[probe.index].content[1] = "text"

\* C12: compactionError goes from absent to a string only in the catch block
\* of an attempt, and from a string to absent only in the reset at the start
\* of an attempt; no step of the success path of an attempt, its exit
\* included, changes it.
C12_ErrorTransitions ==
    [][/\ (compactionError.isNull /\ ~compactionError'.isNull) =>
              \E a \in Attempts :
                  running = a /\ attempt[a].pc = "catch" /\ attempt'[a].pc = "marker"
       /\ (~compactionError.isNull /\ compactionError'.isNull) =>
              \E a \in Attempts :
                  running = a /\ attempt[a].pc = "reset" /\ attempt'[a].pc = "request"
       /\ \A a \in Attempts :
              (running = a
                 /\ attempt[a].pc \in {"ancestors", "replace", "schedule", "finish"}) =>
                  compactionError' = compactionError]_vars

\* an attempt has exited successfully while the error of an overlapping
\* failed attempt is still set
C12_Witness ==
    \E a, b \in Attempts :
        /\ Done(a) /\ Succeeded(a)
        /\ Done(b) /\ Rejected(b)
        /\ ~compactionError.isNull
        /\ LoopIdle

\* C13: an automatic and a manual attempt given the same messages, the same
\* collaborator outcome and the same callbacks (no clearAlerts) make the same
\* calls to the state setters and the same callback calls with the same
\* arguments, in the same order, and end the same way.
C13_ManualFlagIrrelevant ==
    \A a, b \in Attempts :
        (/\ Done(a) /\ Done(b)
         /\ ~attempt[a].manual /\ attempt[b].manual
         /\ ~caller.hasClearAlerts
         /\ attempt[a].messages = attempt[b].messages
         /\ attempt[a].outcome = attempt[b].outcome
         /\ ~TimerPending(a) /\ ~TimerPending(b)) =>
            /\ attempt[a].calls = attempt[b].calls
            /\ attempt[a].writes = attempt[b].writes
            /\ attempt[a].convertedMessages = attempt[b].convertedMessages
            /\ attempt[a].promise = attempt[b].promise

C13_Witness ==
    \E a, b \in Attempts :
        /\ Done(a) /\ Done(b)
        /\ ~attempt[a].manual /\ attempt[b].manual
        /\ ~caller.hasClearAlerts /\ caller.hasSetAncestorMessages
        /\ attempt[a].messages = attempt[b].messages
        /\ attempt[a].outcome = attempt[b].outcome
        /\ Succeeded(a) /\ ResponseLen(a) = 3
        /\ Len(attempt[a].messages) >= 1
        /\ Len(CallsTo(a, "append")) = 1 /\ Len(CallsTo(b, "append")) = 1

\* C14: an invocation made while another attempt is awaiting the
\* collaborator is neither rejected nor queued: every attempt calls the
\* collaborator once and, once it has exited, has called setMessages once,
\* and the setMessages calls happen in the order in which the collaborator
\* calls settled.
C14_NoMutualExclusion ==
    \A a \in Attempts :
        /\ attempt[a].pc \notin {"idle", "clearAlerts", "reset", "request"} =>
               Len(CallsTo(a, "manageContextFromBackend")) = 1
        /\ Done(a) =>
               /\ Len(CallsTo(a, "setMessages")) = 1
               /\ attempt[a].settledAt > 0
               /\ attempt[a].replacedAt > 0
        /\ \A b \in Attempts :
               (/\ attempt[a].settledAt > 0
                /\ attempt[a].settledAt < attempt[b].settledAt
                /\ attempt[b].replacedAt > 0) =>
                   /\ attempt[a].replacedAt > 0
                   /\ attempt[a].replacedAt < attempt[b].replacedAt

\* two attempts overlapped (the later invocation settled first) and both
\* replaced the caller's list, the later invocation first
C14_Witness ==
    \E a, b \in Attempts :
        /\ a < b
        /\ Done(a) /\ Done(b)
        /\ attempt[b].settledAt < attempt[a].settledAt
        /\ attempt[b].replacedAt < attempt[a].replacedAt
        /\ attempt[a].messages = attempt[b].messages

\* an attempt between its reset and its exit
InFlight(a) ==
    attempt[a].pc \in {"request", "await", "settled", "convert", "ancestors",
                       "replace", "schedule", "finish", "catch", "marker", "failed"}

\* C15: in every reachable state, overlapping invocations included,
\* isCompacting is true whenever some attempt has been invoked (and has made
\* its reset) and has not yet taken its success or failure exit.
C15_IsCompactingTracksInFlight ==
    (\E a \in Attempts : InFlight(a)) => isCompacting

\* the step in which attempt a calls setMessages
SetMessagesStep(a) ==
    /\ running = a
    /\ attempt[a].pc \in {"replace", "marker"}
    /\ attempt'[a].pc \in {"schedule", "failed"}

\* C16: the append of a continuation comes after its attempt's setMessages
\* call, no setMessages call of any attempt falls between an attempt's
\* replacement and its pending append, and no setMessages call installs a
\* snapshot taken before an append that has happened since.
C16_AppendDoesNotRaceReplace ==
    /\ [](\A a \in Attempts :
            Len(CallsTo(a, "append")) > 0 =>
                \E i, j \in 1..Len(attempt[a].calls) :
                    /\ i < j
                    /\ attempt[a].calls[i].fn = "setMessages"
                    /\ attempt[a].calls[j].fn = "append")
    /\ [][\A a \in Attempts :
            SetMessagesStep(a) =>
                /\ \A b \in Attempts \ {a} : ~(TimerPending(b) /\ attempt[b].hasAppend)
                /\ Len(submitted) = attempt[a].appendsSeen]_vars

\* every invoked attempt has exited
AllExited == \A a \in Attempts : attempt[a].pc \in {"idle", "done"}

\* C17: when every collaborator call settles, every invoked attempt
\* eventually exits; an attempt exits only through the end of the try body
\* or of the catch block, having called setMessages once; no step takes a
\* started attempt back or cancels it; and once every invoked attempt has
\* exited isCompacting is false.
C17_RunToCompletion ==
    /\ \A a \in Attempts : (attempt[a].pc # "idle") ~> Done(a)
    /\ [](\A a \in Attempts :
            Done(a) =>
                /\ Len(CallsTo(a, "setMessages")) = 1
                /\ attempt[a].promise = "fulfilled")
    /\ []((AllExited /\ \E a \in Attempts : Done(a)) => ~isCompacting)
    /\ [][\A a \in Attempts :
            /\ attempt[a].pc # "idle" => attempt'[a].pc # "idle"
            /\ attempt[a].pc = "done" => attempt'[a].pc = "done"
            /\ (attempt[a].pc # "done" /\ attempt'[a].pc = "done") =>
                   attempt[a].pc \in {"finish", "failed"}]_vars

\* two overlapping attempts have both exited, one each way
C17_Witness ==
    \E a, b \in Attempts :
        /\ Done(a) /\ Succeeded(a)
        /\ Done(b) /\ ~Succeeded(b)
        /\ attempt[a].messages = attempt[b].messages
        /\ ~isCompacting

\* C18: starting from a list whose markers are shown and not sent, and with
\* a collaborator that puts the summarizationRequested block in response
\* message 0 only, every message of the caller's list and of the ancestor
\* store that satisfies hasCompactionMarker has display = true and
\* sendToLLM = false, after any sequence of successful and failed attempts
\* and continuation appends; the synthesized Error Marker Message included.
C18_MarkersShownNotSent ==
    /\ \A k \in 1..Len(messageList) :
           hasCompactionMarker(messageList[k]) =>
               (messageList[k].display /\ ~messageList[k].sendToLLM)
    /\ \A k \in 1..Len(ancestorStore) :
           hasCompactionMarker(ancestorStore[k]) =>
               (ancestorStore[k].display /\ ~ancestorStore[k].sendToLLM)

\* after a success and a later failure: the list holds the server's marker,
\* the appended continuation and the error marker, the ancestor store an
\* earlier marker
C18_Witness ==
    /\ \E i, j \in 1..Len(messageList) :
           /\ i < j
           /\ messageList[i].id = <<"api", 0>>
           /\ hasCompactionMarker(messageList[i])
           /\ IsErrorMarker(messageList[j])
    /\ \E k \in 1..Len(ancestorStore) : hasCompactionMarker(ancestorStore[k])
    /\ submitted # <<>>

\* the collaborator rejected, or the conversion of its response threw
Failed(a) ==
    \/ Rejected(a)
    \/ /\ attempt[a].outcome.kind = "resolved"
       /\ ConversionThrows(attempt[a].outcome.response)

\* C19: when the collaborator rejects or the conversion of a response
\* message fails, the attempt never calls setAncestorMessages and never
\* schedules or calls append; its only callback is the one setMessages call
\* with the original messages and the error marker, so that the ancestor
\* store and the submissions stay as they were.
C19_FailureFrame ==
    \A a \in Attempts :
        (Failed(a) /\ attempt[a].pc \in {"catch", "marker", "failed", "done"}) =>
            LET cb == MessageCallbacks(a)
                n == Len(attempt[a].messages)
            IN  /\ Len(CallsTo(a, "setAncestorMessages")) = 0
                /\ Len(CallsTo(a, "append")) = 0
                /\ ~TimerPending(a)
                /\ attempt[a].convertedMessages = <<>>
                /\ attempt[a].pc \in {"catch", "marker"} => cb = <<>>
                /\ attempt[a].pc \in {"failed", "done"} =>
                       /\ Len(cb) = 1
                       /\ cb[1].fn = "setMessages"
                       /\ Len(cb[1].arg) = n + 1
                       /\ SubSeq(cb[1].arg, 1, n) = attempt[a].messages
                       /\ IsErrorMarker(cb[1].arg[n + 1])
                /\ SoleAttempt(a) =>
                       /\ ancestorStore = <<>>
                       /\ submitted = <<>>
                       /\ timers = <<>>

\* a response whose last message cannot be converted, with every callback
\* supplied
C19_Witness ==
    \E a \in Attempts :
        /\ Done(a)
        /\ attempt[a].outcome.kind = "resolved"
        /\ ResponseLen(a) >= 3
        /\ attempt[a].outcome.response[ResponseLen(a)].malformed
        /\ attempt[a].hasSetAncestorMessages /\ attempt[a].hasAppend
        /\ Len(attempt[a].messages) >= 1

\* C20: a response of more than three messages is not rejected: setMessages
\* receives all n converted messages in response order, index 0 flagged
\* (true, false) and every later index (false, true); append is called at
\* most once, from the timer, with the message at index 2 (once the timer
\* has fired, exactly once); no error is set and no error marker installed.
C20_LongResponse ==
    \A a \in Attempts :
        (Succeeded(a) /\ ResponseLen(a) > 3 /\ Done(a)) =>
            LET sm == CallsTo(a, "setMessages")
                ap == CallsTo(a, "append")
                r == attempt[a].outcome.response
            IN  /\ Len(sm) = 1
                /\ Len(sm[1].arg) = Len(r)
                /\ \A k \in 1..Len(r) :
                       /\ ConvertedFrom(sm[1].arg[k], r[k], k = 1, k # 1)
                       /\ ~IsErrorMarker(sm[1].arg[k])
                /\ Len(ap) <= 1
                /\ attempt[a].hasAppend => (Len(ap) = 1 <=> ~TimerPending(a))
                /\ Len(ap) = 1 => ap[1].arg = <<sm[1].arg[3]>>
                /\ Len(attempt[a].writes) = 3
                /\ \A k \in 1..Len(attempt[a].writes) :
                       attempt[a].writes[k].cell = "compactionError" =>
                           attempt[a].writes[k].err = Null
                /\ SoleAttempt(a) => compactionError = Null

C20_Witness ==
    \E a \in Attempts :
        /\ Done(a) /\ Succeeded(a) /\ ResponseLen(a) = 4
        /\ attempt[a].outcome.response[4].display
        /\ Len(CallsTo(a, "append")) = 1

====
